---------------------------- MODULE Spec2Model ----------------------------
(***************************************************************************)
(* Model of cocomo-core's file system item layer (fsitem.rs): FSItem::new, *)
(* FSItem::try_from_path, FSItem::unlink, FSItem::final_item_type and      *)
(* FSItemType::comparable, run against a small, unchanging file system.    *)
(*                                                                         *)
(* The file system is a function from paths to nodes.  The three calls the *)
(* code makes into it (symlink_metadata, read_link, detect_file) are       *)
(* operators on that function.  unlink's `while let` loop has no hop       *)
(* counter in the source, so it is modelled one iteration per step.        *)
(***************************************************************************)
EXTENDS Naturals, Sequences, FiniteSets, TLC

\* Number of real paths of the modelled file system (besides the empty path).
NumPaths == 3

VARIABLES
    fs,            \* the file system: path -> node
    cwd,           \* the working directory of the process
    op,            \* the public operation that was called
    arg_path,      \* the path FSItem::new was called with
    pc,            \* control position: "idle", "comparable", "unlink" (at the
                   \* loop's condition), "unlink_body", "read_dir" (at
                   \* fs::read_dir), "for" (at the loop over the entries),
                   \* "done", "aborted" (the thread panicked)
    arg_item,      \* the FSItem unlink / final_item_type was called on
    arg_self,      \* comparable's first argument of the outermost call
    arg_other,     \* comparable's second argument of the outermost call
    self,          \* comparable: `self` of the current (innermost) call
    other,         \* comparable: `other` of the current (innermost) call
    pending,       \* comparable: the argument the recursive call will get
    current_path,  \* unlink: the loop variable
    link_target,   \* unlink: the target bound by the loop's `while let`
    hops,          \* number of read_link iterations unlink has completed
    result,        \* the value returned by the public operation
    first_result,  \* the value of a first call, kept while a second one runs
    stack,         \* read_dir: the active calls, innermost last
    items          \* read_dir: the (level, item) pairs pushed so far

vars == <<fs, cwd, op, pc, arg_path, arg_item, arg_self, arg_other, self, other,
          pending, current_path, link_target, hops, result, first_result,
          stack, items>>

----------------------------------------------------------------------------
\* Paths

path_new(is_abs, components) == [abs |-> is_abs, comps |-> components]

\* path::PathBuf::new(): the empty path
EmptyPath == path_new(FALSE, <<>>)

NamePool == <<"a", "b", "C", "d", "e">>

RealPaths == {path_new(TRUE, <<NamePool[i]>>) : i \in 1..NumPaths}

Paths == RealPaths \cup {EmptyPath}

\* The path "."
DotPath == path_new(FALSE, <<".">>)

\* The components from the k-th on, joined by "/".
RECURSIVE join_from(_, _)
join_from(cs, k) ==
    IF k > Len(cs) THEN ""
    ELSE IF k = Len(cs) THEN cs[k]
    ELSE cs[k] \o "/" \o join_from(cs, k + 1)

\* path.as_os_str(): the path as it was written
as_os_str(p) == (IF p.abs THEN "/" ELSE "") \o join_from(p.comps, 1)

\* path.components().next_back(): a "." is no component unless the path
\* starts with it; "" when the path has no component but the root.
last_component(p) ==
    LET seen == {i \in 1..Len(p.comps) : p.comps[i] # "." \/ (i = 1 /\ ~p.abs)} IN
    IF seen = {} THEN "" ELSE p.comps[CHOOSE i \in seen : \A j \in seen : j <= i]

\* file_name().unwrap_or(path.as_os_str()): file_name is None unless the
\* last component is a normal name.
unwrap_or_path(last, p) == IF last \in {"", ".", ".."} THEN as_os_str(p) ELSE last

\* path.file_name().unwrap_or(path.as_os_str()).to_string_lossy()
file_name_or_path(p) == unwrap_or_path(last_component(p), p)

----------------------------------------------------------------------------
\* Media types

mime_type(mime, ext) == [mime |-> mime, extension |-> ext]

INODE_DIR == "inode/directory"
DIRECTORY == mime_type(INODE_DIR, "")
INODE_SYMLINK == "inode/symlink"
SYMLINK == mime_type(INODE_SYMLINK, "")
INVALID_MIME == "<invalid>"
INVALID == mime_type(INVALID_MIME, "")

\* The content types detect_file reports in the modelled file systems.
DetectedTypes ==
    {mime_type("text/plain", ".txt"), mime_type("image/png", ".png"),
     mime_type("application/toml", ".toml")}

----------------------------------------------------------------------------
\* FSItemType and io::Result

Directory == [tag |-> "Directory"]
File(ft) == [tag |-> "File", file_type |-> ft]
SymLink(t) == [tag |-> "SymLink", target |-> t]
Invalid(c) == [tag |-> "Invalid", cause |-> c]

BROKEN_LINK == SymLink(EmptyPath)

Ok(v) == [ok |-> TRUE, val |-> v]
Err(k) == [ok |-> FALSE, kind |-> k]

\* The outcome of a call that does not return.
Hang == [returns |-> FALSE]

\* Mutant of media_type: a link reports the directory type.
media_type_link_as_dir(t) ==
    CASE t.tag = "Directory" -> DIRECTORY
      [] t.tag = "File" -> t.file_type
      [] t.tag = "SymLink" -> DIRECTORY
      [] t.tag = "Invalid" -> INVALID

\* FSItemType::media_type(&self)
media_type(t) ==
    CASE t.tag = "Directory" -> DIRECTORY
      [] t.tag = "File" -> t.file_type
      [] t.tag = "SymLink" -> SYMLINK
      [] t.tag = "Invalid" -> INVALID

----------------------------------------------------------------------------
\* The file system

\* kind: "none"        nothing at the path (ENOENT)
\*       "denied"      the path cannot be examined (EACCES)
\*       "dir"         a directory
\*       "dir_denied"  a directory that cannot be opened for listing (EACCES)
\*       "dir_ioerr"   a directory that can be opened but whose entries cannot
\*                     be read (EIO)
\*       "file"        a regular file whose content can be read
\*       "unreadable"  a regular file that cannot be opened (EACCES)
\*       "symlink"     a symbolic link
\*       "badlink"     a symbolic link whose target cannot be read (EIO, which
\*                     io::Error::kind reports as Uncategorized)
\*       "other"       a fifo that nobody writes to; as a device or a socket
\*                     it is neither directory, regular file nor link
Node(kind, media, target) == [kind |-> kind, media |-> media, target |-> target]

NoNode == Node("none", INVALID, EmptyPath)

\* The kinds lstat reports as a directory.
DirKinds == {"dir", "dir_denied", "dir_ioerr"}

Nodes ==
    {Node(k, INVALID, EmptyPath) : k \in {"none", "denied", "dir", "unreadable", "badlink", "other"}}
    \cup {Node("file", m, EmptyPath) : m \in DetectedTypes}
    \cup {Node("symlink", INVALID, t) : t \in Paths}

\* Every assignment of nodes to the real paths; nothing is ever at the empty path.
FileSystems ==
    {[p \in Paths |-> IF p = EmptyPath THEN NoNode ELSE g[p]] : g \in [RealPaths -> Nodes]}

\* The root directory, "/".
RootDir == path_new(TRUE, <<>>)

\* The object stored at the location c (the names from the root down, no
\* link among them followed).
raw_node(f, c) ==
    IF c = <<>> THEN Node("dir", INVALID, EmptyPath)
    ELSE IF path_new(TRUE, c) \in DOMAIN f THEN f[path_new(TRUE, c)]
    ELSE NoNode

\* The number of links the system follows in one path walk before it gives
\* up with ELOOP.
SymlinkHops == 40

\* The path walk of the operating system.  cur is the location reached, rest
\* the components still to be walked.  "." stays, ".." goes to the parent (the
\* root is its own parent), a link is replaced by its target, read relative to
\* the directory that holds the link; the last component is followed only when
\* follow_last holds.  The walk fails when it has to pass through something
\* that is no directory or cannot be searched, when a link it has to follow
\* cannot be read or has an empty target, and when too many links were
\* followed.
RECURSIVE walk(_, _, _, _, _)
walk(f, cur, rest, follow_last, fuel) ==
    IF rest = <<>> THEN Ok(cur)
    ELSE IF raw_node(f, cur).kind = "none" THEN Err("NotFound")
    ELSE IF raw_node(f, cur).kind \in {"denied", "dir_denied"} THEN Err("PermissionDenied")
    ELSE IF raw_node(f, cur).kind = "badlink" THEN Err("Uncategorized")
    ELSE IF raw_node(f, cur).kind \notin {"dir", "dir_ioerr"} THEN Err("NotADirectory")
    ELSE IF Head(rest) = "." THEN walk(f, cur, Tail(rest), follow_last, fuel)
    ELSE IF Head(rest) = ".."
         THEN walk(f, SubSeq(cur, 1, Len(cur) - 1), Tail(rest), follow_last, fuel)
    ELSE IF /\ raw_node(f, cur \o <<Head(rest)>>).kind = "badlink"
            /\ (Tail(rest) # <<>> \/ follow_last)
         THEN Err("Uncategorized")
    ELSE IF /\ raw_node(f, cur \o <<Head(rest)>>).kind = "symlink"
            /\ (Tail(rest) # <<>> \/ follow_last)
         THEN IF fuel = 0 THEN Err("FilesystemLoop")
              ELSE IF raw_node(f, cur \o <<Head(rest)>>).target = EmptyPath THEN Err("NotFound")
              ELSE walk(f,
                        IF raw_node(f, cur \o <<Head(rest)>>).target.abs THEN <<>> ELSE cur,
                        raw_node(f, cur \o <<Head(rest)>>).target.comps \o Tail(rest),
                        follow_last, fuel - 1)
    ELSE walk(f, cur \o <<Head(rest)>>, Tail(rest), follow_last, fuel)

\* The location a system call on path p examines: a relative path starts at
\* the working directory of the process, the empty path names nothing.
os_canon(f, p, follow_last) ==
    IF p = EmptyPath THEN Err("NotFound")
    ELSE walk(f, IF p.abs THEN <<>> ELSE cwd.comps, p.comps, follow_last, SymlinkHops)

\* The object at the location a walk has reached, or the error of the walk.
node_of(f, r) == IF r.ok THEN Ok(raw_node(f, r.val)) ELSE r

\* The object a system call on path p examines, or the error of the walk.
\* (Here and below r ranges over a one-element set: the walk is done once and
\* r is its outcome.)
examine(f, p, follow_last) == CHOOSE v \in {node_of(f, r) : r \in {os_canon(f, p, follow_last)}} : TRUE

\* The object of an examination; nothing when the walk failed.
found(r) == IF r.ok THEN r.val ELSE NoNode

\* The object at path p, the last component not followed.
node_at(f, p) == CHOOSE v \in {found(r) : r \in {examine(f, p, FALSE)}} : TRUE

\* stat: what the metadata of an examined object says
stat_of(r) ==
    IF ~r.ok THEN r
    ELSE CASE r.val.kind = "none" -> Err("NotFound")
           [] r.val.kind = "denied" -> Err("PermissionDenied")
           [] r.val.kind \in DirKinds -> Ok([file_type |-> "dir"])
           [] r.val.kind \in {"file", "unreadable"} -> Ok([file_type |-> "file"])
           [] r.val.kind \in {"symlink", "badlink"} -> Ok([file_type |-> "symlink"])
           [] OTHER -> Ok([file_type |-> "other"])

\* Mutant of symlink_metadata: path.metadata(), stat, which follows a link.
metadata_following(f, p) == CHOOSE v \in {stat_of(r) : r \in {examine(f, p, TRUE)}} : TRUE

\* path.symlink_metadata(): lstat, the final component is not followed
symlink_metadata(f, p) == CHOOSE v \in {stat_of(r) : r \in {examine(f, p, FALSE)}} : TRUE

\* readlink on an examined object: fails on anything that is not a symlink
link_of(r) ==
    IF ~r.ok THEN r
    ELSE CASE r.val.kind = "symlink" -> Ok(r.val.target)
           [] r.val.kind = "none" -> Err("NotFound")
           [] r.val.kind = "denied" -> Err("PermissionDenied")
           [] r.val.kind = "badlink" -> Err("Uncategorized")
           [] OTHER -> Err("InvalidInput")

\* fs::read_link(path)
read_link(f, p) == CHOOSE v \in {link_of(r) : r \in {examine(f, p, FALSE)}} : TRUE

\* The content type of an examined object that was opened and read.  open
\* blocks on a fifo until somebody writes to it: the call does not return.
\* A link is met here only when it could not be read.
content_of(r) ==
    IF ~r.ok THEN r
    ELSE CASE r.val.kind = "file" -> Ok(r.val.media)
           [] r.val.kind \in {"unreadable", "denied", "dir_denied"} -> Err("PermissionDenied")
           [] r.val.kind = "none" -> Err("NotFound")
           [] r.val.kind \in {"dir", "dir_ioerr"} -> Err("IsADirectory")
           [] r.val.kind = "other" -> Hang
           [] OTHER -> Err("Uncategorized")

\* mimetype_detector::detect_file(path): opens the file, following links,
\* and sniffs its head
detect_file(f, p) == CHOOSE v \in {content_of(r) : r \in {examine(f, p, TRUE)}} : TRUE

----------------------------------------------------------------------------
\* FSItem

FSItem(item_type, name, path, metadata) ==
    [item_type |-> item_type, name |-> name, path |-> path, metadata |-> metadata]

None == [some |-> FALSE]
Some(v) == [some |-> TRUE, val |-> v]

\* The match on the metadata in try_from_path: Result<FSItemType>
item_type_of(f, p, meta) ==
    CASE meta.file_type = "dir" -> Ok(Directory)
      [] meta.file_type = "file" ->
            LET d == detect_file(f, p) IN
            IF d.ok THEN Ok(File(d.val)) ELSE d
      [] meta.file_type = "symlink" ->
            LET l == read_link(f, p) IN
            IF l.ok THEN Ok(SymLink(l.val)) ELSE l
      [] OTHER -> Err("Unsupported")

try_from_path(f, p) ==
    LET m == symlink_metadata(f, p) IN
    IF ~m.ok THEN m
    ELSE LET t == item_type_of(f, p, m.val) IN
         IF ~t.ok THEN t
         ELSE Ok(FSItem(t.val, file_name_or_path(p), p, Some(m.val)))

\* Mutant of new: the error's kind is dropped.
new_cause_lost(f, p) ==
    LET r == try_from_path(f, p) IN
    IF r.ok THEN r.val
    ELSE FSItem(Invalid("NotFound"), file_name_or_path(p), p, None)

new(f, p) ==
    LET r == try_from_path(f, p) IN
    IF r.ok THEN r.val
    ELSE FSItem(Invalid(r.kind), file_name_or_path(p), p, None)

is_dir(item) == item.item_type.tag = "Directory"
is_file(item) == item.item_type.tag = "File"
is_link(item) == item.item_type.tag = "SymLink"

\* The entries the program can hold: each was built by FSItem::new from a path.
Items(f) == {new(f, p) : p \in DOMAIN f \cup {DotPath}}

----------------------------------------------------------------------------
\* unlink and final_item_type, piecewise

\* unlink, the condition of `while let Ok(link_target) = fs::read_link(&current_path)`
unlink_next(f, cur) == read_link(f, cur)

\* Mutant of unlink_finish: the infallible constructor classifies the path.
unlink_finish_infallible(f, cur) == Ok(new(f, cur))

\* unlink, after the loop: FSItem::try_from_path(&current_path)
unlink_finish(f, cur) == try_from_path(f, cur)

\* Mutant of unlink_self: the entry is rebuilt from its type and path alone.
unlink_self_rebuilt(item) == Ok(FSItem(item.item_type, "", item.path, None))

\* unlink, the arm for everything that is not a SymLink: Ok(self.clone())
unlink_self(item) == Ok(item)

\* Mutant of final_of_unlinked: every link counts as broken.
final_always_broken(r) == BROKEN_LINK

\* final_item_type, the match on unlink's result
final_of_unlinked(r) == IF r.ok THEN r.val.item_type ELSE BROKEN_LINK

\* final_item_type, the arm for everything that is not a SymLink
final_of_self(item) == item.item_type

----------------------------------------------------------------------------
\* comparable, piecewise

\* Mutant of same_mime: any two files are comparable.
same_mime_ignored(left_file_type, right_file_type) == TRUE

\* left_file_type.mime() == right_file_type.mime()
same_mime(left_file_type, right_file_type) ==
    left_file_type.mime = right_file_type.mime

\* Mutant of match_arm: the arm for a link on the right is missing.
match_arm_no_right(s, o) ==
    CASE s.tag = "Directory" /\ o.tag = "Directory" -> "DirDir"
      [] s.tag = "File" /\ o.tag = "File" -> "FileFile"
      [] s.tag = "SymLink" -> "LinkLeft"
      [] OTHER -> "Other"

\* The arm of `match (self, other)` that is taken, first match wins.
match_arm(s, o) ==
    CASE s.tag = "Directory" /\ o.tag = "Directory" -> "DirDir"
      [] s.tag = "File" /\ o.tag = "File" -> "FileFile"
      [] s.tag = "SymLink" -> "LinkLeft"
      [] s.tag # "SymLink" /\ o.tag = "SymLink" -> "LinkRight"
      [] OTHER -> "Other"

----------------------------------------------------------------------------
\* State machine

NoItem == FSItem(Invalid("none"), "", EmptyPath, None)
NoType == [tag |-> "None"]
NoResult == [tag |-> "None"]

\* The kinds comparable is called with: the kinds of the program's entries.
ItemTypes(f) == {i.item_type : i \in Items(f)}

\* No call has been made yet.
NoCall ==
    /\ first_result = NoResult
    /\ stack = <<>>
    /\ items = <<>>
    /\ op = "none"
    /\ pc = "idle"
    /\ arg_path = EmptyPath
    /\ arg_item = NoItem
    /\ arg_self = NoType
    /\ arg_other = NoType
    /\ self = NoType
    /\ other = NoType
    /\ pending = NoType
    /\ current_path = EmptyPath
    /\ link_target = EmptyPath
    /\ hops = 0
    /\ result = NoResult

Init ==
    /\ fs \in FileSystems
    /\ cwd = RootDir
    /\ NoCall

\* Groups of variables an action leaves alone.
call_args == <<arg_path, arg_item, arg_self, arg_other>>
call_frame == <<self, other, pending>>
loop_vars == <<current_path, link_target, hops>>

\* FSItem::new(path)
CallNew ==
    /\ pc = "idle"
    /\ \E p \in DOMAIN fs \cup {DotPath} :
        /\ arg_path' = p
        /\ result' = new(fs, p)
    /\ op' = "new"
    /\ pc' = "done"
    /\ UNCHANGED <<fs, cwd, first_result, stack, items, arg_item, arg_self, arg_other, call_frame, loop_vars>>

\* item.item_type.media_type()
CallMediaType ==
    /\ pc = "idle"
    /\ \E item \in Items(fs) :
        /\ arg_item' = item
        /\ result' = media_type(item.item_type)
    /\ op' = "media_type"
    /\ pc' = "done"
    /\ UNCHANGED <<fs, cwd, first_result, stack, items, arg_path, arg_self, arg_other, call_frame, loop_vars>>

\* item.unlink(), up to the loop
CallUnlink ==
    /\ pc = "idle"
    /\ \E item \in Items(fs) :
        /\ arg_item' = item
        /\ IF is_link(item)
           THEN /\ current_path' = item.item_type.target
                /\ pc' = "unlink"
                /\ result' = result
           ELSE /\ result' = unlink_self(item)
                /\ pc' = "done"
                /\ current_path' = current_path
    /\ op' = "unlink"
    /\ UNCHANGED <<fs, cwd, first_result, stack, items, arg_path, arg_self, arg_other, call_frame, link_target, hops>>

\* item.final_item_type(), up to unlink's loop
CallFinalItemType ==
    /\ pc = "idle"
    /\ \E item \in Items(fs) :
        /\ arg_item' = item
        /\ IF is_link(item)
           THEN /\ current_path' = item.item_type.target
                /\ pc' = "unlink"
                /\ result' = result
           ELSE /\ result' = final_of_self(item)
                /\ pc' = "done"
                /\ current_path' = current_path
    /\ op' = "final_item_type"
    /\ UNCHANGED <<fs, cwd, first_result, stack, items, arg_path, arg_self, arg_other, call_frame, link_target, hops>>

\* a.comparable(&b), the outermost call
CallComparable ==
    /\ pc = "idle"
    /\ \E a \in ItemTypes(fs), b \in ItemTypes(fs) :
        /\ arg_self' = a
        /\ arg_other' = b
        /\ self' = a
        /\ other' = b
    /\ op' = "comparable"
    /\ pc' = "comparable"
    /\ UNCHANGED <<fs, cwd, first_result, stack, items, arg_path, arg_item, pending, loop_vars, result>>

\* The loop's condition holds: read_link succeeded and binds link_target.
UnlinkStep ==
    /\ pc = "unlink"
    /\ unlink_next(fs, current_path).ok
    /\ link_target' = unlink_next(fs, current_path).val
    /\ pc' = "unlink_body"
    /\ UNCHANGED <<fs, cwd, first_result, stack, items, op, call_args, call_frame, current_path, hops, result>>

\* The loop's body: current_path = link_target.  Nothing counts the hops in
\* the code; `hops` only observes them, up to NumPaths + 1.
UnlinkFollow ==
    /\ pc = "unlink_body"
    /\ current_path' = link_target
    /\ hops' = IF hops < NumPaths + 1 THEN hops + 1 ELSE hops
    /\ pc' = "unlink"
    /\ UNCHANGED <<fs, cwd, first_result, stack, items, op, call_args, call_frame, link_target, result>>

\* The loop ends: read_link failed; the path reached is classified and the
\* result goes to unlink's caller.
UnlinkReturn ==
    /\ pc = "unlink"
    /\ ~unlink_next(fs, current_path).ok
    /\ LET r == unlink_finish(fs, current_path) IN
       CASE op = "unlink" ->
                /\ result' = r
                /\ pc' = "done"
                /\ UNCHANGED call_frame
         [] op = "final_item_type" ->
                /\ result' = final_of_unlinked(r)
                /\ pc' = "done"
                /\ UNCHANGED call_frame
         [] op = "comparable" ->
                \* FSItem::new(path).final_item_type().comparable(pending)
                /\ self' = final_of_unlinked(r)
                /\ other' = pending
                /\ pending' = NoType
                /\ pc' = "comparable"
                /\ result' = result
    /\ UNCHANGED <<fs, cwd, first_result, stack, items, op, call_args, loop_vars>>

\* (Directory, Directory) => true
ComparableDirDir ==
    /\ pc = "comparable"
    /\ match_arm(self, other) = "DirDir"
    /\ result' = TRUE
    /\ pc' = "done"
    /\ UNCHANGED <<fs, cwd, first_result, stack, items, op, call_args, call_frame, loop_vars>>

\* (File, File) => left_file_type.mime() == right_file_type.mime()
ComparableFileFile ==
    /\ pc = "comparable"
    /\ match_arm(self, other) = "FileFile"
    /\ result' = same_mime(self.file_type, other.file_type)
    /\ pc' = "done"
    /\ UNCHANGED <<fs, cwd, first_result, stack, items, op, call_args, call_frame, loop_vars>>

\* FSItem::new(path).final_item_type().comparable(next): the item at `path` is
\* built; if it is no link its type is the receiver of the recursive call at
\* once, otherwise unlink's loop runs first.
ComparableRecurse(path, next) ==
    LET item == new(fs, path) IN
    IF is_link(item)
    THEN /\ current_path' = item.item_type.target
         /\ pending' = next
         /\ pc' = "unlink"
         /\ UNCHANGED <<self, other>>
    ELSE /\ self' = final_of_self(item)
         /\ other' = next
         /\ UNCHANGED <<pc, pending, current_path>>

\* (SymLink { target: path }, _) => FSItem::new(path).final_item_type().comparable(other)
ComparableLinkLeft ==
    /\ pc = "comparable"
    /\ match_arm(self, other) = "LinkLeft"
    /\ ComparableRecurse(self.target, other)
    /\ UNCHANGED <<fs, cwd, first_result, stack, items, op, call_args, link_target, hops, result>>

\* (_, SymLink { target: path }) => FSItem::new(path).final_item_type().comparable(self)
ComparableLinkRight ==
    /\ pc = "comparable"
    /\ match_arm(self, other) = "LinkRight"
    /\ ComparableRecurse(other.target, self)
    /\ UNCHANGED <<fs, cwd, first_result, stack, items, op, call_args, link_target, hops, result>>

\* _ => false
ComparableOther ==
    /\ pc = "comparable"
    /\ match_arm(self, other) = "Other"
    /\ result' = FALSE
    /\ pc' = "done"
    /\ UNCHANGED <<fs, cwd, first_result, stack, items, op, call_args, call_frame, loop_vars>>

Next ==
    \/ CallNew
    \/ CallMediaType
    \/ CallUnlink
    \/ CallFinalItemType
    \/ CallComparable
    \/ UnlinkStep
    \/ UnlinkFollow
    \/ UnlinkReturn
    \/ ComparableDirDir
    \/ ComparableFileFile
    \/ ComparableLinkLeft
    \/ ComparableLinkRight
    \/ ComparableOther

Spec == Init /\ [][Next]_vars

\* The program is single-threaded and nothing preempts it: a call that can
\* take a step takes it.
FairSpec == Spec /\ WF_vars(Next)

----------------------------------------------------------------------------
\* comparable called both ways round

\* After a.comparable(&b) has returned, b.comparable(&a) is called on the same
\* file system; the first answer is kept in first_result.
CallSwapped ==
    /\ op = "comparable"
    /\ pc = "done"
    /\ first_result = NoResult
    /\ first_result' = Some(result)
    /\ self' = arg_other
    /\ other' = arg_self
    /\ pending' = NoType
    /\ current_path' = EmptyPath
    /\ link_target' = EmptyPath
    /\ hops' = 0
    /\ pc' = "comparable"
    /\ UNCHANGED <<fs, cwd, stack, items, op, call_args, result>>

SymNext ==
    \/ CallComparable
    \/ CallSwapped
    \/ UnlinkStep
    \/ UnlinkFollow
    \/ UnlinkReturn
    \/ ComparableDirDir
    \/ ComparableFileFile
    \/ ComparableLinkLeft
    \/ ComparableLinkRight
    \/ ComparableOther

SymSpec == Init /\ [][SymNext]_vars

----------------------------------------------------------------------------
\* Links with relative targets

\* A directory /d that holds a link l, and objects of the same names inside
\* and outside of it.
DirD == path_new(TRUE, <<"d">>)
RelDomain ==
    {DirD, EmptyPath}
    \cup {path_new(TRUE, <<"d", n>>) : n \in {"l", "x", "y"}}
    \cup {path_new(TRUE, <<n>>) : n \in {"x", "y"}}

FileNodes == {Node("file", m, EmptyPath) : m \in DetectedTypes}
DirNode == Node("dir", INVALID, EmptyPath)
LinkTo(t) == Node("symlink", INVALID, t)

\* /d/l is a link whose target is the relative path x, the relative path
\* ../x or the absolute path /d/x; /d/x may itself be a link with the relative target y.
RelFileSystems ==
    {[p \in RelDomain |->
        CASE p = DirD -> DirNode
          [] p = EmptyPath -> NoNode
          [] p = path_new(TRUE, <<"d", "l">>) -> l
          [] p = path_new(TRUE, <<"d", "x">>) -> dx
          [] p = path_new(TRUE, <<"d", "y">>) -> dy
          [] p = path_new(TRUE, <<"x">>) -> x
          [] p = path_new(TRUE, <<"y">>) -> y] :
        l \in {LinkTo(path_new(FALSE, <<"x">>)), LinkTo(path_new(FALSE, <<"..", "x">>)),
               LinkTo(path_new(TRUE, <<"d", "x">>))},
        dx \in {NoNode, DirNode, LinkTo(path_new(FALSE, <<"y">>))} \cup FileNodes,
        dy \in {NoNode} \cup FileNodes,
        x \in {NoNode, DirNode} \cup FileNodes,
        y \in {NoNode, DirNode}}

\* The program is started in / or in /d.
RelInit ==
    /\ fs \in RelFileSystems
    /\ cwd \in {RootDir, DirD}
    /\ NoCall

RelSpec == RelInit /\ [][Next]_vars

----------------------------------------------------------------------------
\* dirtree.rs: the flattened directory tree

\* The number of entries built below the root and the number of levels.
MaxEntries == 3
MaxDepth == 3

\* The file names of the entries, and the bytes of each (OsStr::as_bytes).
TreeNames == {"C", "a", "b"}
name_bytes(n) ==
    CASE n = "C" -> <<67>>
      [] n = "a" -> <<97>>
      [] n = "b" -> <<98>>
      [] n = "x" -> <<120>>

\* Ord for OsString: lexicographic on the bytes.
bytes_less(x, y) ==
    \E k \in 1..Len(y) :
        /\ \A i \in 1..(k - 1) : i <= Len(x) /\ x[i] = y[i]
        /\ (k > Len(x) \/ x[k] < y[k])

\* path.join(name), DirEntry::path()
path_join(p, n) == path_new(p.abs, p.comps \o <<n>>)

\* path.parent()
path_parent(p) == path_new(p.abs, SubSeq(p.comps, 1, Len(p.comps) - 1))

\* The root of the tree that is built, and the other paths flatten is called
\* with: "." (the root is the working directory), a link to the root, a
\* regular file, a directory that cannot be listed, a path where nothing is.
\* /s is a directory outside of the tree.
TreeRoot == path_new(TRUE, <<"r">>)
LinkRoot == path_new(TRUE, <<"l">>)
FileRoot == path_new(TRUE, <<"f">>)
DeniedRoot == path_new(TRUE, <<"q">>)
NoRoot == path_new(TRUE, <<"n">>)
Outside == path_new(TRUE, <<"s">>)
Roots == {TreeRoot, DotPath, LinkRoot, FileRoot, DeniedRoot, NoRoot}

TextFile == Node("file", mime_type("text/plain", ".txt"), EmptyPath)

\* The path p lies below the path q.
IsUnder(p, q) ==
    /\ Len(p.comps) > Len(q.comps)
    /\ SubSeq(p.comps, 1, Len(q.comps)) = q.comps

\* The file system before any entry is built below the root.
BaseTree ==
    [p \in (Roots \ {NoRoot, DotPath}) \cup {Outside, path_join(Outside, "x"), EmptyPath} |->
        CASE p = TreeRoot -> DirNode
          [] p = LinkRoot -> LinkTo(TreeRoot)
          [] p = FileRoot -> TextFile
          [] p = DeniedRoot -> Node("dir_denied", INVALID, EmptyPath)
          [] p = Outside -> DirNode
          [] p = path_join(Outside, "x") -> TextFile
          [] OTHER -> NoNode]

\* What an entry below the root can be.
ChildNodes ==
    {DirNode, TextFile, LinkTo(Outside)}
    \cup {Node(k, INVALID, EmptyPath) : k \in {"dir_denied", "dir_ioerr", "unreadable", "other"}}

\* The entries built below the root.
Built(f) == {q \in DOMAIN f : IsUnder(q, TreeRoot)}

\* opendir on the location r the path leads to: only a directory that may
\* be read is opened; a link that cannot be read fails with the error of
\* reading it.
opened(f, r) ==
    IF ~r.ok THEN r
    ELSE CASE raw_node(f, r.val).kind \in {"dir", "dir_ioerr"} -> r
           [] raw_node(f, r.val).kind \in {"denied", "dir_denied"} -> Err("PermissionDenied")
           [] raw_node(f, r.val).kind = "none" -> Err("NotFound")
           [] raw_node(f, r.val).kind = "badlink" -> Err("Uncategorized")
           [] OTHER -> Err("NotADirectory")

\* fs::read_dir(path): opendir, which follows a link at the end of the path;
\* the value is the location of the directory that was opened.
read_dir_open(f, p) == CHOOSE v \in {opened(f, r) : r \in {os_canon(f, p, TRUE)}} : TRUE

\* The iterator fs::read_dir returns yields Ok for every entry.
entries_readable(f, c) == raw_node(f, c).kind # "dir_ioerr"

\* entry.file_name() of the entries of the directory at location c
entry_names(f, c) ==
    {q.comps[Len(q.comps)] :
        q \in {q \in DOMAIN f : /\ q.abs
                                /\ Len(q.comps) = Len(c) + 1
                                /\ SubSeq(q.comps, 1, Len(c)) = c
                                /\ f[q].kind # "none"}}

\* The orders in which the system may yield the entries of a directory.
Orderings(S) ==
    {s \in [1..Cardinality(S) -> S] : \A i, j \in 1..Cardinality(S) : i # j => s[i] # s[j]}

\* Mutant of sort_by_file_name: the entries stay in the order of the system.
sort_skipped(child_entries) == child_entries

\* child_entries.sort_unstable_by_key(|entry| entry.file_name())
sort_by_file_name(child_entries) ==
    CHOOSE s \in Orderings({child_entries[i] : i \in 1..Len(child_entries)}) :
        \A i, j \in 1..Len(s) : i < j => bytes_less(name_bytes(s[i]), name_bytes(s[j]))

\* FSItem::try_from(&entry): Self::try_from_path(&item.path())
entry_try_from(f, dir, name) == try_from_path(f, path_join(dir, name))

\* Mutant of next_level: the nested call gets the level of its caller.
next_level_same(level) == level

\* read_dir(level + 1, &path): the level of the nested call (a u16; a tree
\* cannot be 65535 levels deep)
next_level(level) == level + 1

\* Mutant of expand: a link is entered like a directory.
expand_links(item) == is_dir(item) \/ is_link(item)

\* Mutant of expand: no entry is entered.
expand_never(item) == FALSE

\* let is_dir = item.is_dir(); if is_dir { ... read_dir(level + 1, &path) ... }
expand(item) == is_dir(item)

\* A call of read_dir(level, path) and the entries its loop has yet to visit.
Frame(level, path, child_entries) ==
    [level |-> level, path |-> path, child_entries |-> child_entries]

\* The innermost active call of read_dir.
Top == stack[Len(stack)]

tree_frame == <<cwd, op, call_args, call_frame, loop_vars>>

\* An entry appears in the file system before the program is started.
AddEntry ==
    /\ pc = "idle"
    /\ Cardinality(Built(fs)) < MaxEntries
    /\ \E d \in Built(fs) \cup {TreeRoot}, name \in TreeNames, n \in ChildNodes :
        /\ fs[d].kind = "dir"
        /\ Len(d.comps) <= MaxDepth
        /\ path_join(d, name) \notin DOMAIN fs
        /\ fs' = [p \in DOMAIN fs \cup {path_join(d, name)} |->
                    IF p = path_join(d, name) THEN n ELSE fs[p]]
    /\ UNCHANGED <<pc, first_result, stack, items, result, tree_frame>>

\* FlattenedDirTree::new(root): read_dir(0, &root) is called
CallFlatten ==
    /\ pc = "idle"
    /\ \E root \in Roots :
        /\ arg_path' = root
        /\ stack' = <<Frame(0, root, <<>>)>>
    /\ items' = <<>>
    /\ op' = "flatten"
    /\ pc' = "read_dir"
    /\ UNCHANGED <<fs, cwd, first_result, arg_item, arg_self, arg_other, call_frame, loop_vars, result>>

\* FlattenedDirTree::new is called again, on a root that names the same
\* directory; what the first call returned is kept in first_result.
CallFlattenAgain ==
    /\ op = "flatten"
    /\ pc = "done"
    /\ result.ok
    /\ first_result = NoResult
    /\ first_result' = Some(result.val)
    /\ \E root \in Roots :
        /\ read_dir_open(fs, root) = read_dir_open(fs, arg_path)
        /\ arg_path' = root
        /\ stack' = <<Frame(0, root, <<>>)>>
    /\ items' = <<>>
    /\ pc' = "read_dir"
    /\ UNCHANGED <<fs, cwd, op, arg_item, arg_self, arg_other, call_frame, loop_vars, result>>

\* fs::read_dir(path)? fails: the error goes up through every active call.
ReadDirFails ==
    /\ pc = "read_dir"
    /\ ~read_dir_open(fs, Top.path).ok
    /\ result' = read_dir_open(fs, Top.path)
    /\ stack' = <<>>
    /\ items' = <<>>
    /\ pc' = "done"
    /\ UNCHANGED <<fs, first_result, tree_frame>>

\* .map(|r| r.expect("Error reading directory entry.")): reading an entry
\* fails and the thread panics.
ReadDirPanics ==
    /\ pc = "read_dir"
    /\ read_dir_open(fs, Top.path).ok
    /\ ~entries_readable(fs, read_dir_open(fs, Top.path).val)
    /\ stack' = <<>>
    /\ items' = <<>>
    /\ pc' = "aborted"
    /\ UNCHANGED <<fs, first_result, result, tree_frame>>

\* The entries are collected, in the order the system yields them, and sorted.
ReadDirSorted ==
    /\ pc = "read_dir"
    /\ read_dir_open(fs, Top.path).ok
    /\ entries_readable(fs, read_dir_open(fs, Top.path).val)
    /\ \E os_order \in Orderings(entry_names(fs, read_dir_open(fs, Top.path).val)) :
        stack' = [stack EXCEPT ![Len(stack)].child_entries = sort_by_file_name(os_order)]
    /\ pc' = "for"
    /\ UNCHANGED <<fs, first_result, items, result, tree_frame>>

\* let item = FSItem::try_from(&entry)? fails: the error goes up through
\* every active call.
ForEntryFails ==
    /\ pc = "for"
    /\ Top.child_entries # <<>>
    /\ ~entry_try_from(fs, Top.path, Head(Top.child_entries)).ok
    /\ result' = entry_try_from(fs, Top.path, Head(Top.child_entries))
    /\ stack' = <<>>
    /\ items' = <<>>
    /\ pc' = "done"
    /\ UNCHANGED <<fs, first_result, tree_frame>>

\* The body of `for entry in child_entries`: the item is pushed and, if it
\* is a directory, read_dir is called on its path.
ForEntry ==
    /\ pc = "for"
    /\ Top.child_entries # <<>>
    /\ entry_try_from(fs, Top.path, Head(Top.child_entries)).ok
    /\ LET item == entry_try_from(fs, Top.path, Head(Top.child_entries)).val
           rest == [stack EXCEPT ![Len(stack)].child_entries = Tail(@)] IN
        /\ items' = Append(items, <<Top.level, item>>)
        /\ IF expand(item)
           THEN /\ stack' = Append(rest, Frame(next_level(Top.level), item.path, <<>>))
                /\ pc' = "read_dir"
           ELSE /\ stack' = rest
                /\ pc' = "for"
    /\ UNCHANGED <<fs, first_result, result, tree_frame>>

\* Ok(items): the call returns to the loop of its caller, the outermost one
\* to FlattenedDirTree::new, which returns Ok(Self { root, items }).
ReadDirReturn ==
    /\ pc = "for"
    /\ Top.child_entries = <<>>
    /\ stack' = SubSeq(stack, 1, Len(stack) - 1)
    /\ IF Len(stack) = 1
       THEN /\ result' = Ok([root |-> arg_path, items |-> items])
            /\ items' = <<>>
            /\ pc' = "done"
       ELSE /\ pc' = "for"
            /\ UNCHANGED <<items, result>>
    /\ UNCHANGED <<fs, first_result, tree_frame>>

TreeInit ==
    /\ fs = BaseTree
    /\ cwd = TreeRoot
    /\ NoCall

TreeNext ==
    \/ AddEntry
    \/ CallFlatten
    \/ CallFlattenAgain
    \/ ReadDirFails
    \/ ReadDirPanics
    \/ ReadDirSorted
    \/ ForEntryFails
    \/ ForEntry
    \/ ReadDirReturn

TreeSpec == TreeInit /\ [][TreeNext]_vars

----------------------------------------------------------------------------
\* What the file system itself says, independently of the code above

\* The path a chain of symlinks starting at p ends at, following at most
\* `fuel` links.  A chain without a cycle has at most NumPaths links.
RECURSIVE ChainEnd(_, _, _)
ChainEnd(f, p, fuel) ==
    IF node_at(f, p).kind = "symlink" /\ fuel > 0
    THEN ChainEnd(f, node_at(f, p).target, fuel - 1)
    ELSE p

UltimateTarget(f, p) == ChainEnd(f, p, NumPaths + 1)

\* The chain starting at p runs into a cycle.
Cyclic(f, p) == node_at(f, UltimateTarget(f, p)).kind = "symlink"

\* The number of links of the chain starting at p (for a chain without cycle).
RECURSIVE ChainLength(_, _, _)
ChainLength(f, p, fuel) ==
    IF node_at(f, p).kind = "symlink" /\ fuel > 0
    THEN 1 + ChainLength(f, node_at(f, p).target, fuel - 1)
    ELSE 0

\* The kind a node stands for when it is a directory or a readable file.
KindOfNode(n) == IF n.kind = "dir" THEN Directory ELSE File(n.media)

\* The kind t resolves to: t itself unless it is a SymLink; for a SymLink the
\* kind of the object at the end of its chain.
LinkResolves(f, t) ==
    /\ t.tag = "SymLink"
    /\ node_at(f, UltimateTarget(f, t.target)).kind \in {"dir", "file"}

ResolvedKind(f, t) ==
    IF t.tag = "SymLink" THEN KindOfNode(node_at(f, UltimateTarget(f, t.target))) ELSE t

\* A SymLink kind whose resolution fails: the chain is cyclic or ends at
\* something that is not a directory or a readable file.
LinkFails(f, t) == t.tag = "SymLink" /\ ~LinkResolves(f, t)

\* The comparability policy on kinds that are not links.
BaseComparable(a, b) ==
    \/ a.tag = "Directory" /\ b.tag = "Directory"
    \/ a.tag = "File" /\ b.tag = "File" /\ a.file_type.mime = b.file_type.mime

Returned(o) == op = o /\ pc = "done"

----------------------------------------------------------------------------
\* Claims

\* C1: resolving a SymLink entry terminates on every file system, cyclic
\* chains included: once unlink has entered its loop it eventually returns.
C1_ResolveTerminates ==
    [](op = "unlink" /\ pc = "unlink" => <>(op = "unlink" /\ pc = "done"))

\* C2: FSItem::new always returns an entry for the path it was given, and when
\* the path cannot be examined, its link target or its content cannot be read,
\* or the object is of no supported type, the entry is Invalid with the kind of
\* the error as cause and carries no metadata.
C2_NewNeverFails ==
    Returned("new") =>
        LET n == node_at(fs, arg_path) IN
        /\ result.item_type.tag \in {"Directory", "File", "SymLink", "Invalid"}
        /\ result.path = arg_path
        /\ result.name = file_name_or_path(arg_path)
        /\ n.kind = "none" => result.item_type = Invalid("NotFound")
        /\ n.kind = "denied" => result.item_type = Invalid("PermissionDenied")
        /\ n.kind = "unreadable" => result.item_type = Invalid("PermissionDenied")
        /\ n.kind = "badlink" => result.item_type = Invalid("Uncategorized")
        /\ n.kind = "other" => result.item_type = Invalid("Unsupported")
        /\ result.item_type.tag = "Invalid" <=> result.metadata = None

C2_Witness ==
    /\ Returned("new")
    /\ node_at(fs, arg_path).kind = "unreadable"
    /\ result.item_type = Invalid("PermissionDenied")

\* C3 as claimed: the kind of the entry FSItem::new returns matches the object
\* at the path: Directory for a directory, File for a regular file, SymLink
\* with the immediate target for a symbolic link, Invalid for anything else.
C3_KindMatchesObject ==
    Returned("new") =>
        LET n == node_at(fs, arg_path) IN
        /\ n.kind = "dir" => result.item_type = Directory
        /\ n.kind \in {"file", "unreadable"} => result.item_type.tag = "File"
        /\ n.kind = "symlink" => result.item_type = SymLink(n.target)
        /\ n.kind = "badlink" => result.item_type.tag = "SymLink"
        /\ n.kind \in {"other", "none"} => result.item_type.tag = "Invalid"

\* C3 as amended: a directory gives Directory; a regular file whose content
\* type can be detected gives File with that type; a symbolic link gives
\* SymLink with its immediate target, never the kind of the target; a regular
\* file whose content cannot be read, a link whose target cannot be read, any
\* other object and a nonexistent path give Invalid.
C3_KindMatchesReadableObject ==
    Returned("new") =>
        LET n == node_at(fs, arg_path) IN
        /\ n.kind = "dir" => result.item_type = Directory
        /\ n.kind = "file" => result.item_type = File(n.media)
        /\ n.kind = "symlink" => result.item_type = SymLink(n.target)
        /\ n.kind \in {"unreadable", "badlink", "other", "none"} =>
                result.item_type.tag = "Invalid"

C3_Witness ==
    /\ Returned("new")
    /\ node_at(fs, arg_path).kind = "symlink"
    /\ node_at(fs, node_at(fs, arg_path).target).kind = "dir"
    /\ result.item_type = SymLink(node_at(fs, arg_path).target)

\* C4: when the chain of links starting at a SymLink entry ends at an
\* existing object that is not a symlink, unlink returns the classification
\* of that object (the entry FSItem::new makes of it), whatever the length of
\* the chain.
C4_ChainYieldsTarget ==
    (Returned("unlink") /\ is_link(arg_item)) =>
        LET t == UltimateTarget(fs, arg_item.path) IN
        node_at(fs, t).kind \in {"dir", "file", "unreadable", "other"} =>
            result.ok /\ result.val = new(fs, t)

\* The part of C4 that the code keeps: when the chain ends at a directory or
\* at a regular file whose content type can be detected, unlink returns the
\* entry of that object (its kind, name, path), whatever the length of the
\* chain.  When it ends at a file that cannot be read or at an unsupported
\* object, unlink returns no entry: it fails with the error FSItem::new
\* records as the cause of the Invalid entry.
C4_ChainYieldsReadableTarget ==
    (Returned("unlink") /\ is_link(arg_item)) =>
        LET t == UltimateTarget(fs, arg_item.path)
            n == node_at(fs, t) IN
        /\ n.kind \in {"dir", "file"} =>
            /\ result.ok
            /\ result.val.item_type = KindOfNode(n)
            /\ result.val.path = t
            /\ result.val.name = file_name_or_path(t)
            /\ result.val.metadata # None
        /\ n.kind = "unreadable" => result = Err("PermissionDenied")
        /\ n.kind = "other" => result = Err("Unsupported")

\* A chain of at least two links that ends at a file was resolved: the case
\* in which unlink does return the classification of the target.
C4_Witness ==
    /\ Returned("unlink")
    /\ is_link(arg_item)
    /\ ChainLength(fs, arg_item.path, NumPaths + 1) >= 2
    /\ node_at(fs, UltimateTarget(fs, arg_item.path)).kind = "file"
    /\ result.ok
    /\ result.val.item_type.tag = "File"

\* C5: when the chain of links starting at a SymLink entry ends at a path
\* where nothing exists, unlink returns an error and no entry, and
\* final_item_type returns the broken link placeholder, a SymLink with an
\* empty target.
C5_BrokenChainFails ==
    LET broken == /\ is_link(arg_item)
                  /\ node_at(fs, UltimateTarget(fs, arg_item.path)).kind = "none" IN
    /\ (Returned("unlink") /\ broken) => ~result.ok
    /\ (Returned("final_item_type") /\ broken) =>
            result = SymLink(EmptyPath)

C5_Witness ==
    /\ Returned("final_item_type")
    /\ is_link(arg_item)
    /\ ChainLength(fs, arg_item.path, NumPaths + 1) >= 2
    /\ UltimateTarget(fs, arg_item.path) # EmptyPath
    /\ node_at(fs, UltimateTarget(fs, arg_item.path)).kind = "none"
    /\ result = SymLink(EmptyPath)

\* C6: unlink on a Directory or File entry returns at once, with the very
\* entry it was called on, and reads no link.
C6_UnlinkIdentity ==
    (op = "unlink" /\ arg_item.item_type.tag \in {"Directory", "File"}) =>
        /\ pc = "done"
        /\ result = Ok(arg_item)
        /\ result.val.name = file_name_or_path(arg_item.path)
        /\ result.val.metadata # None
        /\ hops = 0
        /\ current_path = EmptyPath

C6_Witness ==
    /\ Returned("unlink")
    /\ arg_item.item_type.tag = "File"
    /\ result = Ok(arg_item)

\* C7: comparable(Directory, Directory) is true; comparable(File{A}, File{B})
\* is true exactly when A and B have the same mime string; a Directory and a
\* File are not comparable, in either order.
C7_ComparablePlainKinds ==
    Returned("comparable") =>
        /\ (arg_self = Directory /\ arg_other = Directory) => result = TRUE
        /\ (arg_self.tag = "File" /\ arg_other.tag = "File") =>
                (result = TRUE <=> arg_self.file_type.mime = arg_other.file_type.mime)
        /\ (arg_self = Directory /\ arg_other.tag = "File") => result = FALSE
        /\ (arg_self.tag = "File" /\ arg_other = Directory) => result = FALSE

C7_Witness ==
    /\ Returned("comparable")
    /\ arg_self.tag = "File"
    /\ arg_other.tag = "File"
    /\ arg_self.file_type.mime # arg_other.file_type.mime
    /\ result = FALSE

\* C8: when one side of comparable is a SymLink that resolves, and the other
\* side is no link or a link that resolves too, the value returned is the
\* comparability of the resolved kinds.
C8_LinksComparedByResolvedKind ==
    (/\ Returned("comparable")
     /\ LinkResolves(fs, arg_self) \/ LinkResolves(fs, arg_other)
     /\ ~LinkFails(fs, arg_self)
     /\ ~LinkFails(fs, arg_other)) =>
        result = BaseComparable(ResolvedKind(fs, arg_self), ResolvedKind(fs, arg_other))

\* A link to a link to a directory was found comparable with a link to a directory.
C8_Witness ==
    /\ Returned("comparable")
    /\ arg_self.tag = "SymLink"
    /\ arg_other.tag = "SymLink"
    /\ node_at(fs, arg_self.target).kind = "symlink"
    /\ LinkResolves(fs, arg_self)
    /\ LinkResolves(fs, arg_other)
    /\ ResolvedKind(fs, arg_self) = Directory
    /\ result = TRUE

\* One side of the outermost call is Invalid or a link that does not resolve.
FailedSide ==
    \/ arg_self.tag = "Invalid"
    \/ arg_other.tag = "Invalid"
    \/ LinkFails(fs, arg_self)
    \/ LinkFails(fs, arg_other)

\* C9: comparable returns false whenever one side is Invalid or a SymLink
\* whose resolution fails, be the chain broken or cyclic.
C9_FailedSideReturnsFalse ==
    [](op = "comparable" /\ FailedSide =>
            <>(op = "comparable" /\ pc = "done" /\ result = FALSE))

\* The part of C9 that the code keeps: with such a side comparable never
\* returns true.
FailedSideNeverTrue ==
    (Returned("comparable") /\ FailedSide) => result = FALSE

\* C10: comparable is total: every call returns.
C10_ComparableTerminates ==
    [](op = "comparable" => <>(pc = "done"))

----------------------------------------------------------------------------
\* media_type

\* The three reserved media types.
Sentinels == {DIRECTORY, SYMLINK, INVALID}

\* C17: media_type reports inode/directory for a Directory entry,
\* inode/symlink for a SymLink entry whatever its target is, the invalid
\* sentinel for an Invalid entry and the detected content type for a File
\* entry; the three sentinels differ from each other and from every detected
\* content type, so the reported type tells the four kinds apart.
C17_MediaTypeSentinels ==
    /\ Cardinality(Sentinels) = 3
    /\ Sentinels \cap DetectedTypes = {}
    /\ Returned("media_type") =>
        /\ arg_item.item_type.tag = "Directory" => result = DIRECTORY /\ result.mime = "inode/directory"
        /\ arg_item.item_type.tag = "SymLink" => result = SYMLINK /\ result.mime = "inode/symlink"
        /\ arg_item.item_type.tag = "Invalid" => result = INVALID
        /\ arg_item.item_type.tag = "File" =>
            /\ result = node_at(fs, arg_item.path).media
            /\ result \in DetectedTypes
            /\ result \notin Sentinels

\* A link whose target is a regular file has reported its type.
C17_Witness ==
    /\ Returned("media_type")
    /\ arg_item.item_type.tag = "SymLink"
    /\ node_at(fs, arg_item.item_type.target).kind = "file"
    /\ result = SYMLINK

----------------------------------------------------------------------------
\* Symmetry of comparable

\* C18: on an unchanging file system, whenever a.comparable(b) and
\* b.comparable(a) both return (no link cycle is met), they return the same
\* answer, for entries of every kind.
C18_ComparableSymmetric ==
    (Returned("comparable") /\ first_result # NoResult) => result = first_result.val

\* Both calls have returned true for a regular file and a chain of two
\* links that ends at a file of the same type.
C18_Witness ==
    /\ Returned("comparable")
    /\ first_result = Some(TRUE)
    /\ result = TRUE
    /\ arg_self.tag = "File"
    /\ arg_other.tag = "SymLink"
    /\ node_at(fs, arg_other.target).kind = "symlink"

----------------------------------------------------------------------------
\* Relative link targets

\* The object the file system designates for the link at the absolute path
\* p: each link of the chain is read relative to the directory that holds it.
Designated(f, p) == CHOOSE v \in {found(r) : r \in {examine(f, p, TRUE)}} : TRUE

\* unlink was called on a link whose stored target is a relative path.
UnlinkedRelativeLink ==
    /\ Returned("unlink")
    /\ is_link(arg_item)
    /\ ~arg_item.item_type.target.abs

\* C20: unlink of a link in directory D with a relative target reaches the
\* object the file system designates, every hop's target being read relative
\* to the directory that holds the link, wherever the program was started.
C20_RelativeToLinkDirectory ==
    UnlinkedRelativeLink =>
        LET n == Designated(fs, arg_item.path) IN
        /\ n.kind \in {"dir", "file"} => result.ok /\ result.val.item_type = KindOfNode(n)
        /\ n.kind = "none" => ~result.ok

\* What the code keeps of C20: started in the directory that holds the links
\* of the chain, unlink reaches the designated object.
RelativeFromLinkDirectory ==
    (UnlinkedRelativeLink /\ cwd = DirD) =>
        LET n == Designated(fs, arg_item.path) IN
        /\ n.kind \in {"dir", "file"} => result.ok /\ result.val.item_type = KindOfNode(n)
        /\ n.kind = "none" => ~result.ok

----------------------------------------------------------------------------
\* The flattened directory tree

\* FlattenedDirTree::new has returned Ok; the sequence it holds.
Flattened == Returned("flatten") /\ result.ok
Out == result.val.items

\* The path of an entry relative to the root flatten was called with.
BelowRoot(p) == SubSeq(p.comps, Len(arg_path.comps) + 1, Len(p.comps))

\* The objects the file system holds below the root flatten was called with,
\* reachable through directories that are no links, by their paths relative
\* to the root.
Reachable(f) ==
    IF ~read_dir_open(f, arg_path).ok THEN {}
    ELSE LET c == read_dir_open(f, arg_path).val IN
         {SubSeq(q.comps, Len(c) + 1, Len(q.comps)) :
            q \in {q \in DOMAIN f :
                    /\ q.abs
                    /\ Len(q.comps) > Len(c)
                    /\ SubSeq(q.comps, 1, Len(c)) = c
                    /\ f[q].kind # "none"
                    /\ \A k \in (Len(c) + 1)..(Len(q.comps) - 1) :
                        raw_node(f, SubSeq(q.comps, 1, k)).kind \in DirKinds}}

\* The object at the relative path s below the root.
ObjectBelow(f, s) == raw_node(f, read_dir_open(f, arg_path).val \o s)

\* The listing of a directory of the subtree fails.
ListingFails(f) ==
    \/ ~read_dir_open(f, arg_path).ok
    \/ ~entries_readable(f, read_dir_open(f, arg_path).val)
    \/ \E s \in Reachable(f) : ObjectBelow(f, s).kind \in {"dir_denied", "dir_ioerr"}

\* An object FSItem::try_from_path cannot classify.
Unclassifiable(n) == n.kind \in {"unreadable", "other", "badlink", "denied"}

\* C11: when a child cannot be classified and every directory can be listed,
\* flatten still succeeds: the sequence holds an entry for every object of the
\* subtree, an Invalid one for the child that could not be classified.
C11_UnclassifiableChildIsInvalid ==
    (/\ Returned("flatten")
     /\ ~ListingFails(fs)
     /\ \E s \in Reachable(fs) : Unclassifiable(ObjectBelow(fs, s))) =>
        /\ result.ok
        /\ \A s \in Reachable(fs) :
            \E i \in 1..Len(Out) :
                /\ BelowRoot(Out[i][2].path) = s
                /\ Unclassifiable(ObjectBelow(fs, s)) => Out[i][2].item_type.tag = "Invalid"

\* What the code does instead: a child that cannot be classified makes the
\* whole call fail with the child's error.
UnclassifiableChildFailsFlatten ==
    (/\ Returned("flatten")
     /\ ~ListingFails(fs)
     /\ \E s \in Reachable(fs) : Unclassifiable(ObjectBelow(fs, s))) =>
        ~result.ok

\* C12: flatten fails whenever the root, classified without following a
\* link, is not a Directory: a regular file, a path where nothing is, a link,
\* even one that points at a directory.
C12_RootMustBeDirectory ==
    (Returned("flatten") /\ new(fs, arg_path).item_type.tag # "Directory") => ~result.ok

\* What the code keeps of C12: the root is never classified, but listing it
\* fails unless the root is a directory or a link that leads to one.
RootMustLeadToDirectory ==
    (Returned("flatten") /\ ~read_dir_open(fs, arg_path).ok) => result = read_dir_open(fs, arg_path)

\* C13: a child that is a link is recorded as a SymLink entry and is a leaf:
\* no entry of the sequence lies below it, even when it points at a directory
\* that has entries; the only entries followed by deeper ones are Directory
\* entries.
C13_SymlinkChildIsLeaf ==
    Flattened =>
        \A i \in 1..Len(Out) :
            /\ node_at(fs, Out[i][2].path).kind = "symlink" => Out[i][2].item_type.tag = "SymLink"
            /\ Out[i][2].item_type.tag = "SymLink" =>
                \A j \in 1..Len(Out) : ~IsUnder(Out[j][2].path, Out[i][2].path)
            /\ (i < Len(Out) /\ Out[i + 1][1] > Out[i][1]) => Out[i][2].item_type.tag = "Directory"

\* The tree holds a link to a directory that has an entry, and an object after
\* it; the sequence has the link and the object that follows.
C13_Witness ==
    /\ Flattened
    /\ arg_path = TreeRoot
    /\ \E i \in 1..(Len(Out) - 1) :
        /\ Out[i][2].item_type = SymLink(Outside)
        /\ entry_names(fs, Outside.comps) # {}
        /\ Out[i + 1][1] = Out[i][1]

\* The (depth, name) pairs of a flattened sequence.
DepthNames(seq) == [i \in 1..Len(seq) |-> <<seq[i][1], seq[i][2].name>>]

\* C14: the entries of one directory appear in strictly ascending order of
\* the bytes of their names ("C" before "a" before "b"), in whatever order the
\* system yields them; a second run, on the same root or on another root that
\* names the same tree, gives the same sequence of (depth, name) pairs.
C14_SortedAndRepeatable ==
    Flattened =>
        /\ \A i, j \in 1..Len(Out) :
            (i < j /\ path_parent(Out[i][2].path) = path_parent(Out[j][2].path)) =>
                bytes_less(name_bytes(Out[i][2].name), name_bytes(Out[j][2].name))
        /\ first_result # NoResult => DepthNames(Out) = DepthNames(first_result.val.items)

\* A directory with the entries b, a and C was flattened twice, from two
\* different roots, and both runs gave C, a, b.
C14_Witness ==
    /\ Flattened
    /\ first_result # NoResult
    /\ first_result.val.root # arg_path
    /\ DepthNames(Out) = <<<<0, "C">>, <<0, "a">>, <<0, "b">>>>
    /\ DepthNames(first_result.val.items) = DepthNames(Out)

\* C15: the sequence is an interleaved pre-order.  The children of the root
\* have depth 0 and the children of a Directory entry at depth d have depth
\* d + 1; a Directory entry is immediately followed by the entries of its
\* subtree, all deeper than it, and the entry after the subtree is no deeper
\* than the directory; the depth never grows by more than 1 from one entry to
\* the next, and it grows only from a directory to its first child.
C15_InterleavedPreOrder ==
    Flattened =>
        \A i \in 1..Len(Out) :
            /\ Out[i][1] = Len(BelowRoot(Out[i][2].path)) - 1
            /\ i < Len(Out) => Out[i + 1][1] <= Out[i][1] + 1
            /\ (i < Len(Out) /\ Out[i + 1][1] = Out[i][1] + 1) =>
                /\ Out[i][2].item_type.tag = "Directory"
                /\ path_parent(Out[i + 1][2].path) = Out[i][2].path
            /\ \A j \in (i + 1)..Len(Out) :
                IsUnder(Out[j][2].path, Out[i][2].path) <=>
                    \A k \in (i + 1)..j : Out[k][1] > Out[i][1]

\* A directory, its child and the directory's next sibling were flattened:
\* the depths are 0, 1, 0.
C15_Witness ==
    /\ Flattened
    /\ Len(Out) = 3
    /\ Out[1][2].item_type.tag = "Directory"
    /\ path_parent(Out[2][2].path) = Out[1][2].path
    /\ path_parent(Out[3][2].path) = arg_path
    /\ <<Out[1][1], Out[2][1], Out[3][1]>> = <<0, 1, 0>>

\* flatten has ended, by returning or by a panic.
FlattenEnded == op = "flatten" /\ pc \in {"done", "aborted"}

\* C16: when the listing of a directory of the subtree fails, the root or a
\* nested one, flatten returns an error: it returns no sequence and the
\* program is not aborted.
C16_ListingFailureIsAnError ==
    (FlattenEnded /\ ListingFails(fs)) => (pc = "done" /\ ~result.ok)

\* What the code keeps of C16: a call that returns although a listing fails
\* returns an error, never a sequence.
ListingFailureNeverPartial ==
    (Returned("flatten") /\ ListingFails(fs)) => ~result.ok

\* C19: when flatten succeeds the sequence has exactly one entry for every
\* object reachable from the root through directories that are no links, and
\* no other entry; the root itself is not listed.
C19_ExactlyTheSubtree ==
    Flattened =>
        /\ {BelowRoot(Out[i][2].path) : i \in 1..Len(Out)} = Reachable(fs)
        /\ Len(Out) = Cardinality(Reachable(fs))
        /\ \A i \in 1..Len(Out) : Out[i][2].path # arg_path

\* A tree with a directory, an object in it and a link to a directory
\* outside was flattened.
C19_Witness ==
    /\ Flattened
    /\ Len(Out) = 3
    /\ \E i \in 1..Len(Out) : Out[i][1] = 1
    /\ \E i \in 1..Len(Out) : Out[i][2].item_type = SymLink(Outside)

=============================================================================
